---- MODULE Spec2Model ----
(***************************************************************************)
(* Model of the realtime streaming client of Kratos_Agentic:               *)
(* frontend/src/services/websocket.ts (class WebSocketManager) together    *)
(* with the browser WebSocket and timer events that drive its handlers,    *)
(* frontend/src/services/audio.ts (class AudioService) with the            *)
(* MediaRecorder events, and the VoiceChat component that uses both.       *)
(***************************************************************************)
EXTENDS Integers, Sequences, FiniteSets, TLC

\* ------------------------------------------------------------------ bounds
\* Specification Spec: the connection life cycle with two connect() calls.
MaxConnectCalls == 2   \* connect() calls made by the application
MaxDisconnects  == 1   \* disconnect() calls made by the application
MaxSockets      == 8   \* connect() invocations in total (application + retry timers)
\* Specification SpecBackoff: one connect() call and its retries.
BackoffConnects    == 1
BackoffDisconnects == 1
BackoffSockets     == 6
\* Specifications SpecSend and SpecRecv: the life cycle with send() or with
\* inbound frames.
IOConnects    == 1
IODisconnects == 1
IOSockets     == 2
MaxSends      == 2   \* send() calls made by the application
MaxFrames     == 2   \* inbound frames received in total
\* Specification SpecVoice: VoiceChat with its connection and recorder.
VoiceConnects    == 1
VoiceDisconnects == 0
VoiceSockets     == 1
VoiceSends       == 2
VoiceFrames      == 3
VoiceStarts      == 2
VoiceStops       == 2
\* Specification SpecProcessing: one voice exchange and its terminal conditions.
ProcSends  == 1
ProcFrames == 2
ProcStarts == 1
ProcStops  == 1
\* Specification SpecText: the mode toggle of App and TextInput.
TextConnects    == 2
TextDisconnects == 1
TextSockets     == 3
TextSends       == 1
TextFrames      == 2
\* Specification SpecOutage: a voice exchange and the loss of its channel.
OutageConnects == 1
OutageSockets  == 6
OutageSends    == 1
OutageFrames   == 1
OutageStarts   == 1
OutageStops    == 1
\* Specification SpecAudio: AudioService called directly.
MaxStarts == 2   \* startRecording() calls
MaxStops  == 3   \* stopRecording() calls
\* Specification SpecChunks: VoiceChat receiving chunks, no recording.
ChunkFrames == 3

\* ------------------------------------------------- constants of the class
maxReconnectAttempts == 5
reconnectDelay       == 1000

NULL == 0

\* null as the value of object-typed state (the council snapshot, the
\* handler not yet registered).
Null == [null |-> TRUE]

\* ------------------------------------------------------------- JSON codec
ParseError == [type |-> "SyntaxError"]

\* Raw inbound frames (event.data): two well-formed, two malformed.
RawFrames ==
  { "{\"type\":\"text\",\"content\":\"a\"}",
    "{\"type\":\"done\",\"content\":\"\"}",
    "{\"type\":\"text\",\"content\":",
    "" }

\* Raw inbound frames of a voice exchange: two text chunks, two council
\* snapshots (the second has fewer members and no dissent field), audio,
\* error, done, and a truncated frame.
ChatFrames ==
  { "{\"type\":\"text\",\"content\":\"a\"}",
    "{\"type\":\"text\",\"content\":\"b\"}",
    "{\"type\":\"council_update\",\"content\":{\"stage\":\"opinions\",\"members\":[{\"id\":0,\"status\":\"thinking\"},{\"id\":1,\"status\":\"thinking\"}],\"dissent\":true}}",
    "{\"type\":\"council_update\",\"content\":{\"stage\":\"review\",\"members\":[{\"id\":0,\"status\":\"complete\"}]}}",
    "{\"type\":\"audio\",\"content\":\"UklGRg==\"}",
    "{\"type\":\"error\",\"content\":\"boom\"}",
    "{\"type\":\"done\",\"content\":\"\"}",
    "{\"type\":\"text\",\"content\":" }

\* JSON.parse(event.data): the decoded chunk, or ParseError when it throws.
JSONParse(f) ==
  CASE f = "{\"type\":\"text\",\"content\":\"a\"}" -> [type |-> "text", content |-> "a"]
    [] f = "{\"type\":\"text\",\"content\":\"b\"}" -> [type |-> "text", content |-> "b"]
    [] f = "{\"type\":\"council_update\",\"content\":{\"stage\":\"opinions\",\"members\":[{\"id\":0,\"status\":\"thinking\"},{\"id\":1,\"status\":\"thinking\"}],\"dissent\":true}}"
         -> [type |-> "council_update",
             content |-> [stage |-> "opinions",
                          members |-> << [id |-> 0, status |-> "thinking"],
                                         [id |-> 1, status |-> "thinking"] >>,
                          dissent |-> TRUE]]
    [] f = "{\"type\":\"council_update\",\"content\":{\"stage\":\"review\",\"members\":[{\"id\":0,\"status\":\"complete\"}]}}"
         -> [type |-> "council_update",
             content |-> [stage |-> "review",
                          members |-> << [id |-> 0, status |-> "complete"] >>]]
    [] f = "{\"type\":\"audio\",\"content\":\"UklGRg==\"}"
         -> [type |-> "audio", content |-> "UklGRg=="]
    [] f = "{\"type\":\"error\",\"content\":\"boom\"}"
         -> [type |-> "error", content |-> "boom"]
    [] f = "{\"type\":\"done\",\"content\":\"\"}"  -> [type |-> "done", content |-> ""]
    [] OTHER -> ParseError

\* Outbound payloads handed to send().
Payloads ==
  { [request_type |-> "text",  content |-> "hi"],
    [request_type |-> "audio", content |-> "hi"] }

\* JSON.stringify(data)
JSONStringify(d) ==
  "{\"request_type\":\"" \o d.request_type \o "\",\"content\":\"" \o d.content
     \o "\",\"metadata\":{}}"

\* Math.pow(2, n) for n >= 0
RECURSIVE Pow2(_)
Pow2(n) == IF n <= 0 THEN 1 ELSE 2 * Pow2(n - 1)

\* ------------------------------------------------------------------ state
VARIABLES
  urlOk,             \* whether new WebSocket(this.url) succeeds (fixed by the url)
  ws,                \* this.ws: index into sockets, or NULL
  reconnectAttempts, \* this.reconnectAttempts
  sockets,           \* every WebSocket created; one not yet closed carries the
                     \* closures bound to it and the state of its connect() promise
  created,           \* number of connect() invocations so far
  outcomes,          \* states of the connect() promises whose socket is gone
                     \* (never constructed, or closed)
  timers,            \* pending setTimeout callbacks, in scheduling order
  errors,            \* invocations of the onError callback: the message, and
                     \* whether the attempts were used up at that moment
  arrived,           \* inbound frames in arrival order (socket, raw frame)
  delivered,         \* invocations of the onMessage callback, in order
  sent,              \* frames transmitted by ws.send
  sendThrown,        \* what this.ws was at each send() that threw
  connectCalls,      \* number of connect() calls by the application
  disconnectCalls,   \* number of disconnect() calls by the application
  sendCalls,         \* number of send() calls by the application
  manualClose,       \* disconnect() was called and connect() not called since
  gaveUp,            \* attemptReconnect() found the attempts used up and the
                     \* application has not called connect() since
  retriesSinceOpen,  \* retry connects started since the last onopen
  limit,             \* the bounds of this behaviour: calls of connect(),
                     \* disconnect() and send(), sockets created, frames received
  \* AudioService
  mediaRecorder,     \* this.mediaRecorder: index into recorders, or NULL
  recorders,         \* every MediaRecorder created
  startCalls,        \* the promise of every startRecording() call, and who awaits it
  stopCalls,         \* the promise of every stopRecording() call, and who awaits it
  \* VoiceChat
  messages,          \* useState<Message[]>
  isRecording,       \* useState(false)
  isProcessing,      \* useState(false)
  currentResponse,   \* useState('')
  councilUpdate,     \* useState<CouncilUpdate | null>
  handler,           \* the state seen by the handleStreamingChunk that the
                     \* mount effect registered (NULL before the mount)
  transcriptions,    \* the apiClient.transcribeAudio calls in flight or finished
  isConnectedState,  \* useState(false) of VoiceChat's isConnected
  thenSocket,        \* the socket whose connect() promise carries the
                     \* .then(() => setIsConnected(true)) of the mounted
                     \* VoiceChat, or NULL
  \* App and TextInput
  inputMode,         \* useState<'voice' | 'text'>('voice')
  textMessages,      \* TextInput: useState<Message[]>([])
  textIsProcessing   \* TextInput: useState(false) for isProcessing

wsVars == << urlOk, ws, reconnectAttempts, sockets, created, outcomes, timers, errors,
             arrived, delivered, sent, sendThrown, connectCalls, disconnectCalls,
             sendCalls, manualClose, gaveUp, retriesSinceOpen, limit >>

audioVars == << mediaRecorder, recorders, startCalls, stopCalls >>

chatVars == << messages, isRecording, isProcessing, currentResponse, councilUpdate,
               handler, transcriptions >>

uiVars == << isConnectedState, thenSocket, inputMode, textMessages, textIsProcessing >>

vars == << wsVars, audioVars, chatVars, uiVars >>

Live(s) == sockets[s].readyState \in {"CONNECTING", "OPEN"}

LiveSockets == { s \in 1..Len(sockets) : Live(s) }

\* ---------------------------------------------------------------- Init
\* The state after new WebSocketManager(url).
Constructed ==
  /\ urlOk \in BOOLEAN
  /\ ws = NULL
  /\ reconnectAttempts = 0
  /\ sockets = << >>
  /\ created = 0
  /\ outcomes = {}
  /\ timers = << >>
  /\ errors = {}
  /\ arrived = << >>
  /\ delivered = << >>
  /\ sent = << >>
  /\ sendThrown = {}
  /\ connectCalls = 0
  /\ disconnectCalls = 0
  /\ sendCalls = 0
  /\ manualClose = FALSE
  /\ gaveUp = FALSE
  /\ retriesSinceOpen = 0

\* The state after new AudioService().
NewAudioService ==
  /\ mediaRecorder = NULL
  /\ recorders = << >>
  /\ startCalls = << >>
  /\ stopCalls = << >>

\* The useState values of the first render of VoiceChat, before its mount
\* effect has run.
FirstRender ==
  /\ messages = << >>
  /\ isRecording = FALSE
  /\ isProcessing = FALSE
  /\ currentResponse = ""
  /\ councilUpdate = Null
  /\ handler = Null
  /\ transcriptions = << >>
  /\ isConnectedState = FALSE
  /\ thenSocket = NULL

\* App starts in voice mode; TextInput is not rendered, its state is what
\* its first render will see.
AppStart ==
  /\ inputMode = "voice"
  /\ textMessages = << >>
  /\ textIsProcessing = FALSE

\* The state after the modules are loaded.
Loaded == Constructed /\ NewAudioService /\ FirstRender /\ AppStart

Limits(c, d, k, n, f) ==
  [connects |-> c, disconnects |-> d, sockets |-> k, sends |-> n, frames |-> f]

Init == Loaded /\ limit = Limits(MaxConnectCalls, MaxDisconnects, MaxSockets, 0, 0)

InitBackoff ==
  Loaded /\ limit = Limits(BackoffConnects, BackoffDisconnects, BackoffSockets, 0, 0)

InitSend ==
  Loaded /\ limit = Limits(IOConnects, IODisconnects, IOSockets, MaxSends, 0)

InitRecv ==
  Loaded /\ limit = Limits(IOConnects, IODisconnects, IOSockets, 0, MaxFrames)

\* ------------------------------------------------------------- connect()
\* The socket created by connect(onMessage, onError); cb identifies the
\* closure pair, hasErr whether onError was supplied.
NewSocket(cb, hasErr) ==
  [ readyState |-> "CONNECTING", cb |-> cb, onError |-> hasErr,
    promise |-> "pending" ]

\* A socket after its close event: nothing refers to its handlers any more.
ClosedSocket == [ readyState |-> "CLOSED" ]

\* Effect of the body of connect() on sockets, this.ws and the promise:
\* new WebSocket(url) either yields a socket that replaces this.ws, or
\* throws, and the catch rejects the promise.
connect(cb, hasErr) ==
  /\ created' = created + 1
  /\ IF urlOk
     THEN /\ sockets' = Append(sockets, NewSocket(cb, hasErr))
          /\ ws' = Len(sockets) + 1
          /\ UNCHANGED outcomes
     ELSE /\ outcomes' = outcomes \cup {"rejected"}
          /\ UNCHANGED << sockets, ws >>

\* The application calls wsManager.connect(onMessage, onError?).
CallerConnect(hasErr) ==
  /\ connectCalls < limit.connects
  /\ created < limit.sockets
  /\ connectCalls' = connectCalls + 1
  /\ connect(connectCalls + 1, hasErr)
  /\ manualClose' = FALSE
  /\ gaveUp' = FALSE
  /\ UNCHANGED << limit, urlOk, reconnectAttempts, timers, errors, arrived, delivered,
                  sent, sendThrown, disconnectCalls, sendCalls, retriesSinceOpen >>

\* ----------------------------------------------------- attemptReconnect()
\* errs: the onError invocations made so far by the running handler.
\* const delay = this.reconnectDelay * Math.pow(2, this.reconnectAttempts - 1)
backoffDelay_offByOne(attempts) == reconnectDelay * Pow2(attempts)

backoffDelay(attempts) == reconnectDelay * Pow2(attempts - 1)

\* wasOpen: whether the socket whose onclose is running was OPEN until this
\* close event (an open channel lost without disconnect()).
attemptReconnect(cb, hasErr, wasOpen, errs) ==
  IF reconnectAttempts >= maxReconnectAttempts
  THEN /\ errors' = errs \cup
             (IF hasErr
              THEN {[msg |-> "Max reconnection attempts reached",
                     exhausted |-> reconnectAttempts >= maxReconnectAttempts]}
              ELSE {})
       /\ gaveUp' = TRUE
       /\ UNCHANGED << reconnectAttempts, timers >>
  ELSE /\ reconnectAttempts' = reconnectAttempts + 1
       /\ timers' = Append(timers,
             [ cb |-> cb, onError |-> hasErr,
               attempt |-> reconnectAttempts + 1, afterOpen |-> wasOpen,
               delay |-> backoffDelay(reconnectAttempts + 1) ])
       /\ errors' = errs
       /\ UNCHANGED gaveUp

\* ------------------------------------------------------- socket handlers
\* ws.onopen
SocketOpen(s) ==
  /\ sockets[s].readyState = "CONNECTING"
  /\ sockets' = [sockets EXCEPT ![s].readyState = "OPEN", ![s].promise = "resolved"]
  /\ reconnectAttempts' = 0
  /\ retriesSinceOpen' = 0
  /\ UNCHANGED << limit, urlOk, ws, created, outcomes, timers, errors, arrived,
                  delivered, sent, sendThrown, connectCalls, disconnectCalls,
                  sendCalls, manualClose, gaveUp >>

\* The connection is closed without an error: the close event runs ws.onclose.
SocketClose(s) ==
  /\ sockets[s].readyState \in {"OPEN", "CLOSING"}
  /\ sockets' = [sockets EXCEPT ![s] = ClosedSocket]
  /\ outcomes' = outcomes \cup {sockets[s].promise}
  /\ ws' = NULL
  /\ attemptReconnect(sockets[s].cb, sockets[s].onError,
                      sockets[s].readyState = "OPEN", errors)
  /\ UNCHANGED << limit, urlOk, created, arrived, delivered, sent, sendThrown,
                  connectCalls, disconnectCalls, sendCalls, manualClose,
                  retriesSinceOpen >>

\* The connection fails: the error event runs ws.onerror, then the close
\* event of the same task runs ws.onclose.
SocketFail(s) ==
  /\ sockets[s].readyState \in {"CONNECTING", "OPEN", "CLOSING"}
  /\ sockets' = [sockets EXCEPT ![s] = ClosedSocket]
  /\ outcomes' = outcomes \cup {sockets[s].promise}
  /\ ws' = NULL
  /\ attemptReconnect(sockets[s].cb, sockets[s].onError,
        sockets[s].readyState = "OPEN",
        errors \cup (IF sockets[s].onError
                     THEN {[msg |-> "WebSocket error",
                            exhausted |-> reconnectAttempts >= maxReconnectAttempts]}
                     ELSE {}))
  /\ UNCHANGED << limit, urlOk, created, arrived, delivered, sent, sendThrown,
                  connectCalls, disconnectCalls, sendCalls, manualClose,
                  retriesSinceOpen >>

\* ws.onmessage without the try/catch around JSON.parse: whatever the parse
\* yields is handed to onMessage.
SocketMessage_noCatch(s, f) ==
  /\ sockets[s].readyState = "OPEN"
  /\ Len(arrived) < limit.frames
  /\ arrived' = Append(arrived, [sock |-> s, data |-> f])
  /\ delivered' = Append(delivered, [cb |-> sockets[s].cb, chunk |-> JSONParse(f)])
  /\ UNCHANGED << limit, urlOk, ws, reconnectAttempts, sockets, created, outcomes,
                  timers, errors, sent, sendThrown, connectCalls, disconnectCalls, sendCalls,
                  manualClose, gaveUp, retriesSinceOpen >>

\* ws.onmessage: JSON.parse inside try/catch, then onMessage(chunk).
SocketMessage(s, f) ==
  /\ sockets[s].readyState = "OPEN"
  /\ Len(arrived) < limit.frames
  /\ arrived' = Append(arrived, [sock |-> s, data |-> f])
  /\ delivered' = IF JSONParse(f) # ParseError
                  THEN Append(delivered, [cb |-> sockets[s].cb, chunk |-> JSONParse(f)])
                  ELSE delivered
  /\ UNCHANGED << limit, urlOk, ws, reconnectAttempts, sockets, created, outcomes,
                  timers, errors, sent, sendThrown, connectCalls, disconnectCalls, sendCalls,
                  manualClose, gaveUp, retriesSinceOpen >>

\* ------------------------------------------------------------ retry timer
\* Timers run in deadline order: a timer scheduled earlier with a delay that
\* is not larger is due first.
Due(i) == \A j \in 1..(i - 1) : timers[j].delay > timers[i].delay

RemoveAt(seq, i) == SubSeq(seq, 1, i - 1) \o SubSeq(seq, i + 1, Len(seq))

\* The setTimeout callback of attemptReconnect:
\* this.connect(onMessage, onError).catch(e => onError && onError(e))
TimerFire(i) ==
  /\ Due(i)
  /\ created < limit.sockets
  /\ timers' = RemoveAt(timers, i)
  /\ connect(timers[i].cb, timers[i].onError)
  /\ errors' = IF ~urlOk /\ timers[i].onError
               THEN errors \cup {[msg |-> "SyntaxError",
                                  exhausted |-> reconnectAttempts >= maxReconnectAttempts]}
               ELSE errors
  /\ retriesSinceOpen' = retriesSinceOpen + 1
  /\ UNCHANGED << limit, urlOk, reconnectAttempts, arrived, delivered, sent, sendThrown,
                  connectCalls, disconnectCalls, sendCalls, manualClose, gaveUp >>

\* ------------------------------------------------------------------ send()
isConnected == ws # NULL /\ sockets[ws].readyState = "OPEN"

\* this.ws as send() sees it: "null", or the readyState of the socket.
wsState == IF ws = NULL THEN "null" ELSE sockets[ws].readyState

\* send() that tests only this.ws, not its readyState.
send_noStateCheck(d) ==
  /\ sendCalls < limit.sends
  /\ sendCalls' = sendCalls + 1
  /\ IF ws # NULL
     THEN /\ sent' = Append(sent, [sock |-> ws, data |-> JSONStringify(d)])
          /\ UNCHANGED sendThrown
     ELSE /\ sendThrown' = sendThrown \cup {wsState}
          /\ UNCHANGED sent
  /\ UNCHANGED << limit, urlOk, ws, reconnectAttempts, sockets, created, outcomes,
                  timers, errors, arrived, delivered, connectCalls, disconnectCalls,
                  manualClose, gaveUp, retriesSinceOpen >>

send(d) ==
  /\ sendCalls < limit.sends
  /\ sendCalls' = sendCalls + 1
  /\ IF ws # NULL /\ sockets[ws].readyState = "OPEN"
     THEN /\ sent' = Append(sent, [sock |-> ws, data |-> JSONStringify(d)])
          /\ UNCHANGED sendThrown
     ELSE /\ sendThrown' = sendThrown \cup {wsState}
          /\ UNCHANGED sent
  /\ UNCHANGED << limit, urlOk, ws, reconnectAttempts, sockets, created, outcomes,
                  timers, errors, arrived, delivered, connectCalls, disconnectCalls,
                  manualClose, gaveUp, retriesSinceOpen >>

\* ------------------------------------------------------------ disconnect()
\* ws.close() starts the closing handshake of a CONNECTING or OPEN socket.
Close(st) == IF st \in {"CONNECTING", "OPEN"} THEN "CLOSING" ELSE st

disconnect ==
  /\ disconnectCalls < limit.disconnects
  /\ disconnectCalls' = disconnectCalls + 1
  /\ IF ws # NULL
     THEN /\ sockets' = [sockets EXCEPT ![ws].readyState = Close(@)]
          /\ ws' = NULL
     ELSE UNCHANGED << sockets, ws >>
  /\ manualClose' = TRUE
  /\ UNCHANGED << limit, urlOk, reconnectAttempts, created, outcomes, timers,
                  errors, arrived, delivered, sent, sendThrown, connectCalls,
                  sendCalls, gaveUp, retriesSinceOpen >>

\* ------------------------------------------------------------------- Next
\* Connection life cycle: connect, socket events, retry timers, disconnect.
Next ==
  \/ \E h \in BOOLEAN : CallerConnect(h) /\ UNCHANGED << audioVars, chatVars, uiVars >>
  \/ \E s \in 1..Len(sockets) : SocketOpen(s) /\ UNCHANGED << audioVars, chatVars, uiVars >>
  \/ \E s \in 1..Len(sockets) : SocketClose(s) /\ UNCHANGED << audioVars, chatVars, uiVars >>
  \/ \E s \in 1..Len(sockets) : SocketFail(s) /\ UNCHANGED << audioVars, chatVars, uiVars >>
  \/ \E i \in 1..Len(timers) : TimerFire(i) /\ UNCHANGED << audioVars, chatVars, uiVars >>
  \/ disconnect /\ UNCHANGED << audioVars, chatVars, uiVars >>

Spec == Init /\ [][Next]_vars

\* One connect() call by the application and the retries that follow it.
SpecBackoff == InitBackoff /\ [][Next]_vars

\* The life cycle together with send().
NextSend ==
  \/ Next
  \/ \E d \in Payloads : send(d) /\ UNCHANGED << audioVars, chatVars, uiVars >>

SpecSend == InitSend /\ [][NextSend]_vars

\* The life cycle together with inbound frames.
NextRecv ==
  \/ Next
  \/ \E s \in 1..Len(sockets), f \in RawFrames :
        SocketMessage(s, f) /\ UNCHANGED << audioVars, chatVars, uiVars >>

SpecRecv == InitRecv /\ [][NextRecv]_vars

TypeOK ==
  /\ ws \in 0..Len(sockets)
  /\ reconnectAttempts \in 0..maxReconnectAttempts
  /\ ws # NULL => Live(ws)
  /\ mediaRecorder \in 0..Len(recorders)
  /\ isRecording \in BOOLEAN
  /\ isProcessing \in BOOLEAN
  /\ \A r \in 1..Len(recorders) : recorders[r].onstop \in 0..Len(stopCalls)

\* ----------------------------------------------------------------- steps
\* The step runs the onopen handler of some socket.
OnOpenStep ==
  \E s \in 1..Len(sockets) :
     sockets[s].readyState = "CONNECTING" /\ sockets'[s].readyState = "OPEN"

\* The step runs the onclose handler of socket s.
OnCloseStep(s) ==
  sockets[s].readyState # "CLOSED" /\ sockets'[s].readyState = "CLOSED"

MaxReported(errs) ==
  \E e \in errs : e.msg = "Max reconnection attempts reached"


\* =========================================================== AudioService
\* A MediaRecorder right after new MediaRecorder(stream) and start().
NewRecorder ==
  [ state |-> "recording", onstop |-> NULL, stopQueued |-> FALSE, tracks |-> TRUE ]

\* startRecording() up to its await: getUserMedia is pending.
startRecording(by) ==
  /\ Len(startCalls) < limit.starts
  /\ startCalls' = Append(startCalls, [state |-> "pending", by |-> by])
  /\ UNCHANGED << mediaRecorder, recorders, stopCalls >>

\* getUserMedia resolves: the rest of startRecording() runs, this.mediaRecorder
\* is replaced by a new recorder that is started, and the promise resolves.
getUserMediaResolved(i) ==
  /\ startCalls[i].state = "pending"
  /\ recorders' = Append(recorders, NewRecorder)
  /\ mediaRecorder' = Len(recorders) + 1
  /\ startCalls' = [startCalls EXCEPT ![i].state = "resolved"]
  /\ UNCHANGED stopCalls

\* getUserMedia rejects (permission denied, no device): the catch rethrows
\* and the promise of startRecording() rejects.
getUserMediaRejected(i) ==
  /\ startCalls[i].state = "pending"
  /\ startCalls' = [startCalls EXCEPT ![i].state = "rejected"]
  /\ UNCHANGED << mediaRecorder, recorders, stopCalls >>

\* No capture is running: no recorder was ever created, or the current one
\* is inactive.
NoCapture ==
  mediaRecorder = NULL \/ recorders[mediaRecorder].state = "inactive"

\* stopRecording(): the executor of the returned promise. by is the awaiting
\* caller and seen what its closure captured. MediaRecorder.stop() on an
\* inactive recorder depends on the browser: it throws InvalidStateError
\* (throws = TRUE; the executor's exception rejects the promise and the
\* tracks are not stopped) or it returns without firing any event.
stopRecording(by, seen, throws) ==
  LET p == Len(stopCalls) + 1
      call(st) == [state |-> st, by |-> by, seen |-> seen, idle |-> NoCapture]
  IN  /\ Len(stopCalls) < limit.stops
      /\ IF mediaRecorder = NULL
         THEN /\ stopCalls' = Append(stopCalls, call("rejected"))
              /\ UNCHANGED recorders
         ELSE IF recorders[mediaRecorder].state = "recording"
         THEN /\ recorders' = [recorders EXCEPT ![mediaRecorder] =
                                 [state |-> "inactive", onstop |-> p,
                                  stopQueued |-> TRUE, tracks |-> FALSE]]
              /\ stopCalls' = Append(stopCalls, call("pending"))
         ELSE IF throws
         THEN /\ recorders' = [recorders EXCEPT ![mediaRecorder].onstop = p]
              /\ stopCalls' = Append(stopCalls, call("rejected"))
         ELSE /\ recorders' = [recorders EXCEPT ![mediaRecorder].onstop = p,
                                                ![mediaRecorder].tracks = FALSE]
              /\ stopCalls' = Append(stopCalls, call("pending"))
      /\ UNCHANGED << mediaRecorder, startCalls >>

\* The promise that the stop event of recorder r resolves: the one whose
\* resolver the current onstop handler holds, if it is still pending.
Resolves(r) ==
  IF recorders[r].onstop # NULL /\ stopCalls[recorders[r].onstop].state = "pending"
  THEN recorders[r].onstop
  ELSE NULL

\* The stop event of recorder r is dispatched: onstop builds the Blob and
\* resolves its promise.
onstop(r) ==
  /\ recorders[r].stopQueued
  /\ recorders' = [recorders EXCEPT ![r].stopQueued = FALSE]
  /\ stopCalls' = IF Resolves(r) # NULL
                  THEN [stopCalls EXCEPT ![Resolves(r)].state = "resolved"]
                  ELSE stopCalls
  /\ UNCHANGED << mediaRecorder, startCalls >>

\* The tracks of the stream end by themselves (device unplugged, permission
\* revoked): the recorder becomes inactive and its stop event is queued.
streamEnded(r) ==
  /\ recorders[r].state = "recording"
  /\ recorders' = [recorders EXCEPT ![r].state = "inactive",
                                    ![r].stopQueued = TRUE,
                                    ![r].tracks = FALSE]
  /\ UNCHANGED << mediaRecorder, startCalls, stopCalls >>

\* A caller other than VoiceChat uses the service.
CallStart ==
  /\ startRecording("caller")
  /\ UNCHANGED << wsVars, chatVars >>
  /\ UNCHANGED uiVars

CallStop(throws) ==
  /\ stopRecording("caller", Null, throws)
  /\ UNCHANGED << wsVars, chatVars >>
  /\ UNCHANGED uiVars

\* ================================================================ VoiceChat
\* The Message built by addMessage; id and timestamp are left out, council
\* is metadata.council, Null when metadata is undefined.
Message(role, content, council) ==
  [role |-> role, content |-> content, council |-> council]

\* addMessage(role, content) of a render that saw the council snapshot seen.
addMessage(role, content, seen) ==
  Append(messages, Message(role, content, seen))

\* handleStreamingChunk that merges a council_update into the previous
\* snapshot field by field.
handleStreamingChunk_merge(h, chunk) ==
  CASE chunk.type = "text" ->
         /\ currentResponse' = currentResponse \o chunk.content
         /\ UNCHANGED << messages, councilUpdate, isProcessing >>
    [] chunk.type = "council_update" ->
         /\ councilUpdate' =
               IF councilUpdate = Null
               THEN chunk.content
               ELSE [k \in DOMAIN councilUpdate \cup DOMAIN chunk.content |->
                       IF k \in DOMAIN chunk.content
                       THEN chunk.content[k]
                       ELSE councilUpdate[k]]
         /\ UNCHANGED << messages, currentResponse, isProcessing >>
    [] chunk.type = "done" ->
         /\ IF h.currentResponse # ""
            THEN /\ messages' = addMessage("assistant", h.currentResponse, h.councilUpdate)
                 /\ currentResponse' = ""
            ELSE UNCHANGED << messages, currentResponse >>
         /\ councilUpdate' = Null
         /\ isProcessing' = FALSE
    [] chunk.type = "error" ->
         /\ isProcessing' = FALSE
         /\ UNCHANGED << messages, currentResponse, councilUpdate >>
    [] OTHER ->
         UNCHANGED << messages, currentResponse, councilUpdate, isProcessing >>

\* handleStreamingChunk of the render h (h.currentResponse and
\* h.councilUpdate are what that render's closure reads); the setters act on
\* the current state.
handleStreamingChunk(h, chunk) ==
  CASE chunk.type = "text" ->
         /\ currentResponse' = currentResponse \o chunk.content
         /\ UNCHANGED << messages, councilUpdate, isProcessing >>
    [] chunk.type = "council_update" ->
         /\ councilUpdate' = chunk.content
         /\ UNCHANGED << messages, currentResponse, isProcessing >>
    [] chunk.type = "done" ->
         /\ IF h.currentResponse # ""
            THEN /\ messages' = addMessage("assistant", h.currentResponse, h.councilUpdate)
                 /\ currentResponse' = ""
            ELSE UNCHANGED << messages, currentResponse >>
         /\ councilUpdate' = Null
         /\ isProcessing' = FALSE
    [] chunk.type = "error" ->
         /\ isProcessing' = FALSE
         /\ UNCHANGED << messages, currentResponse, councilUpdate >>
    [] OTHER ->
         UNCHANGED << messages, currentResponse, councilUpdate, isProcessing >>

\* The mount effect: wsManager.connect(chunk => handleStreamingChunk(chunk),
\* onError). The effect has no dependencies, so the handler registered is
\* the one of the first render for the lifetime of the component.
Mount ==
  /\ inputMode = "voice"
  /\ handler = Null
  /\ CallerConnect(TRUE)
  /\ handler' = [currentResponse |-> currentResponse, councilUpdate |-> councilUpdate]
  /\ thenSocket' = IF urlOk THEN Len(sockets) + 1 ELSE NULL
  /\ UNCHANGED << messages, isRecording, isProcessing, currentResponse, councilUpdate,
                  transcriptions, isConnectedState >>
  /\ UNCHANGED << inputMode, textMessages, textIsProcessing >>
  /\ UNCHANGED audioVars

\* The callbacks with closure pair cb belong to the VoiceChat that is
\* mounted now; the setters of an unmounted component do nothing.
Mounted(cb) == inputMode = "voice" /\ handler # Null /\ cb = connectCalls

\* ws.onopen of socket s; when its connect() promise is the one the mount
\* effect holds, .then runs setIsConnected(true).
VoiceOpen(s) ==
  /\ SocketOpen(s)
  /\ isConnectedState' = IF Mounted(sockets[s].cb) /\ s = thenSocket
                         THEN TRUE
                         ELSE isConnectedState
  /\ UNCHANGED << thenSocket, inputMode, textMessages, textIsProcessing >>
  /\ UNCHANGED << audioVars, chatVars >>

\* ws.onclose of socket s; when attemptReconnect reports the exhausted
\* attempts, the error callback runs setIsConnected(false).
VoiceClose(s) ==
  /\ SocketClose(s)
  /\ isConnectedState' = IF /\ Mounted(sockets[s].cb)
                            /\ sockets[s].onError
                            /\ reconnectAttempts >= maxReconnectAttempts
                         THEN FALSE
                         ELSE isConnectedState
  /\ UNCHANGED << thenSocket, inputMode, textMessages, textIsProcessing >>
  /\ UNCHANGED << audioVars, chatVars >>

\* ws.onerror and ws.onclose of socket s; the error callback runs
\* setIsConnected(false).
VoiceFail(s) ==
  /\ SocketFail(s)
  /\ isConnectedState' = IF Mounted(sockets[s].cb) /\ sockets[s].onError
                         THEN FALSE
                         ELSE isConnectedState
  /\ UNCHANGED << thenSocket, inputMode, textMessages, textIsProcessing >>
  /\ UNCHANGED << audioVars, chatVars >>

\* The retry timer i; its connect() promise has no .then, and its .catch
\* hands a constructor failure to the error callback.
VoiceTimer(i) ==
  /\ TimerFire(i)
  /\ isConnectedState' = IF Mounted(timers[i].cb) /\ timers[i].onError /\ ~urlOk
                         THEN FALSE
                         ELSE isConnectedState
  /\ UNCHANGED << thenSocket, inputMode, textMessages, textIsProcessing >>
  /\ UNCHANGED << audioVars, chatVars >>

\* A frame arrives on socket s: ws.onmessage, and for a frame that parses
\* the registered handleStreamingChunk.
ChunkArrives(s, f) ==
  /\ SocketMessage(s, f)
  /\ Mounted(sockets[s].cb)
  /\ IF Len(delivered') > Len(delivered)
     THEN handleStreamingChunk(handler, delivered'[Len(delivered')].chunk)
     ELSE UNCHANGED << messages, currentResponse, councilUpdate, isProcessing >>
  /\ UNCHANGED << isRecording, handler, transcriptions >>
  /\ UNCHANGED audioVars
  /\ UNCHANGED uiVars

\* The record button is enabled unless isProcessing, and calls onStart when
\* isRecording is false: handleRecordingStart up to its await.
handleRecordingStart ==
  /\ handler # Null
  /\ ~isProcessing
  /\ ~isRecording
  /\ startRecording("VoiceChat")
  /\ UNCHANGED << wsVars, chatVars >>
  /\ UNCHANGED uiVars

\* getUserMedia of start call i resolves; handleRecordingStart resumes with
\* setIsRecording(true).
MicGranted(i) ==
  /\ getUserMediaResolved(i)
  /\ IF startCalls[i].by = "VoiceChat"
     THEN /\ isRecording' = TRUE
          /\ UNCHANGED << messages, isProcessing, currentResponse, councilUpdate,
                          handler, transcriptions >>
     ELSE UNCHANGED chatVars
  /\ UNCHANGED wsVars
  /\ UNCHANGED uiVars

\* getUserMedia of start call i rejects; the catch of handleRecordingStart
\* logs the error.
MicDenied(i) ==
  /\ getUserMediaRejected(i)
  /\ UNCHANGED << wsVars, chatVars >>
  /\ UNCHANGED uiVars

\* The record button calls onStop when isRecording is true:
\* handleRecordingStop up to its first await, and its catch when the
\* promise of stopRecording() is already rejected.
handleRecordingStop(throws) ==
  /\ handler # Null
  /\ ~isProcessing
  /\ isRecording
  /\ stopRecording("VoiceChat", councilUpdate, throws)
  /\ isProcessing' = IF stopCalls'[Len(stopCalls')].state = "rejected"
                     THEN FALSE
                     ELSE isProcessing
  /\ UNCHANGED << messages, isRecording, currentResponse, councilUpdate, handler,
                  transcriptions >>
  /\ UNCHANGED wsVars
  /\ UNCHANGED uiVars

\* The stop event of recorder r; when it resolves a promise that
\* handleRecordingStop awaits, that call resumes: setIsRecording(false),
\* setIsProcessing(true), apiClient.transcribeAudio(...) is started.
StopEvent(r) ==
  /\ onstop(r)
  /\ IF Resolves(r) # NULL /\ stopCalls[Resolves(r)].by = "VoiceChat"
     THEN /\ isRecording' = FALSE
          /\ isProcessing' = TRUE
          /\ transcriptions' = Append(transcriptions,
                                 [state |-> "pending", seen |-> stopCalls[Resolves(r)].seen])
          /\ UNCHANGED << messages, currentResponse, councilUpdate, handler >>
     ELSE UNCHANGED chatVars
  /\ UNCHANGED wsVars
  /\ UNCHANGED uiVars

\* The stream of recorder r ends by itself.
StreamEnded(r) ==
  /\ streamEnded(r)
  /\ UNCHANGED << wsVars, chatVars >>
  /\ UNCHANGED uiVars

\* Texts that the transcription service returns.
Transcripts == { "hi", "" }

\* transcribeAudio of call t resolves with text: handleRecordingStop resumes
\* with addMessage('user', text) and wsManager.send(...); when send throws,
\* the catch runs setIsProcessing(false).
TranscribeOk(t, text) ==
  /\ transcriptions[t].state = "pending"
  /\ transcriptions' = [transcriptions EXCEPT ![t].state = "ok"]
  /\ messages' = addMessage("user", text, transcriptions[t].seen)
  /\ send([request_type |-> "audio", content |-> text])
  /\ isProcessing' = IF isConnected THEN isProcessing ELSE FALSE
  /\ UNCHANGED << isRecording, currentResponse, councilUpdate, handler >>
  /\ UNCHANGED audioVars
  /\ UNCHANGED uiVars

\* A catch of handleRecordingStop that does not clear the indicator.
TranscribeFail_keepsProcessing(t) ==
  /\ transcriptions[t].state = "pending"
  /\ transcriptions' = [transcriptions EXCEPT ![t].state = "failed"]
  /\ UNCHANGED << messages, isRecording, isProcessing, currentResponse, councilUpdate,
                  handler >>
  /\ UNCHANGED << wsVars, audioVars >>
  /\ UNCHANGED uiVars

\* transcribeAudio of call t rejects (fetch fails, or the response is not
\* ok): the catch of handleRecordingStop runs setIsProcessing(false).
TranscribeFail(t) ==
  /\ transcriptions[t].state = "pending"
  /\ transcriptions' = [transcriptions EXCEPT ![t].state = "failed"]
  /\ isProcessing' = FALSE
  /\ UNCHANGED << messages, isRecording, currentResponse, councilUpdate, handler >>
  /\ UNCHANGED << wsVars, audioVars >>
  /\ UNCHANGED uiVars

InitChunks ==
  Loaded /\ limit = Limits(VoiceConnects, VoiceDisconnects, VoiceSockets, 0, ChunkFrames)

\* VoiceChat mounted once, its socket, and the chunks of the service.
NextChunks ==
  \/ Mount
  \/ \E s \in 1..Len(sockets) : VoiceOpen(s)
  \/ \E s \in 1..Len(sockets) : VoiceClose(s)
  \/ \E s \in 1..Len(sockets), f \in ChatFrames : ChunkArrives(s, f)

SpecChunks == InitChunks /\ [][NextChunks]_vars

\* ========================================================= App, TextInput
\* A frame arrives on a socket whose callbacks belong to a VoiceChat that is
\* no longer mounted: ws.onmessage runs, the setters of the handler do
\* nothing.
StaleChunkArrives(s, f) ==
  /\ SocketMessage(s, f)
  /\ ~Mounted(sockets[s].cb)
  /\ UNCHANGED << audioVars, chatVars, uiVars >>

\* No continuation of handleRecordingStart or handleRecordingStop is waiting.
NoneAwaited ==
  /\ \A i \in 1..Len(startCalls) : startCalls[i].state # "pending"
  /\ \A p \in 1..Len(stopCalls) : stopCalls[p].state # "pending"
  /\ \A t \in 1..Len(transcriptions) : transcriptions[t].state # "pending"

\* The mode toggle in voice mode: VoiceChat unmounts (its effect cleanup
\* calls wsManager.disconnect() and its state is dropped) and TextInput is
\* rendered for the first time.
SwitchToText ==
  /\ inputMode = "voice"
  /\ handler # Null
  /\ NoneAwaited
  /\ disconnect
  /\ inputMode' = "text"
  /\ messages' = << >>
  /\ isRecording' = FALSE
  /\ isProcessing' = FALSE
  /\ currentResponse' = ""
  /\ councilUpdate' = Null
  /\ handler' = Null
  /\ transcriptions' = << >>
  /\ isConnectedState' = FALSE
  /\ thenSocket' = NULL
  /\ textMessages' = << >>
  /\ textIsProcessing' = FALSE
  /\ UNCHANGED audioVars

\* The mode toggle in text mode: TextInput unmounts (it has no effect
\* cleanup) and VoiceChat is rendered for the first time; its mount effect
\* is the step Mount.
SwitchToVoice ==
  /\ inputMode = "text"
  /\ inputMode' = "voice"
  /\ textMessages' = << >>
  /\ textIsProcessing' = FALSE
  /\ UNCHANGED << isConnectedState, thenSocket >>
  /\ UNCHANGED << wsVars, audioVars, chatVars >>

\* What the user has typed when handleSend runs.
Inputs == { "Hello", " " }

\* String.prototype.trim on the inputs above.
Trim(t) == IF t = " " THEN "" ELSE t

\* handleSend of TextInput with input = text: return early on blank input
\* or while isProcessing; otherwise append the user message, clear the
\* input, set isProcessing and call wsManager.send, whose exception (if any)
\* leaves the handler after the state updates were queued.
handleSend(text) ==
  /\ inputMode = "text"
  /\ IF Trim(text) = "" \/ textIsProcessing
     THEN UNCHANGED << wsVars, textMessages, textIsProcessing >>
     ELSE /\ textMessages' = Append(textMessages, Message("user", text, Null))
          /\ textIsProcessing' = TRUE
          /\ send([request_type |-> "text", content |-> text])
  /\ UNCHANGED << isConnectedState, thenSocket, inputMode >>
  /\ UNCHANGED << audioVars, chatVars >>

InitText ==
  Loaded /\ limit = Limits(TextConnects, TextDisconnects, TextSockets, TextSends, TextFrames)

\* The two modes of App with the connection that VoiceChat opens.
NextText ==
  \/ Mount
  \/ SwitchToText
  \/ SwitchToVoice
  \/ \E s \in 1..Len(sockets) : VoiceOpen(s)
  \/ \E s \in 1..Len(sockets) : VoiceClose(s)
  \/ \E s \in 1..Len(sockets) : VoiceFail(s)
  \/ \E i \in 1..Len(timers) : VoiceTimer(i)
  \/ \E text \in Inputs : handleSend(text)
  \/ \E s \in 1..Len(sockets), f \in ChatFrames : ChunkArrives(s, f)
  \/ \E s \in 1..Len(sockets), f \in ChatFrames : StaleChunkArrives(s, f)

SpecText == InitText /\ [][NextText]_vars

InitAudio ==
  Loaded /\ limit = [starts |-> MaxStarts, stops |-> MaxStops]

\* The calls of the service and the events of its recorders.
NextAudio ==
  \/ CallStart
  \/ \E i \in 1..Len(startCalls) : MicGranted(i)
  \/ \E i \in 1..Len(startCalls) : MicDenied(i)
  \/ \E throws \in BOOLEAN : CallStop(throws)
  \/ \E r \in 1..Len(recorders) : StopEvent(r)
  \/ \E r \in 1..Len(recorders) : StreamEnded(r)

SpecAudio == InitAudio /\ [][NextAudio]_vars

\* Limits of a behaviour with recording: the connection limits and
\* startRecording()/stopRecording() calls.
VoiceLimits(c, d, k, n, f, a, o) ==
  [connects |-> c, disconnects |-> d, sockets |-> k, sends |-> n, frames |-> f,
   starts |-> a, stops |-> o]

InitVoice ==
  Loaded /\ limit = VoiceLimits(VoiceConnects, VoiceDisconnects, VoiceSockets,
                                     VoiceSends, VoiceFrames, VoiceStarts, VoiceStops)

\* VoiceChat mounted once, the socket events, the chunks of the service and
\* the record button.
NextVoice ==
  \/ Mount
  \/ \E s \in 1..Len(sockets) : VoiceOpen(s)
  \/ \E s \in 1..Len(sockets) : VoiceClose(s)
  \/ \E s \in 1..Len(sockets), f \in ChatFrames : ChunkArrives(s, f)
  \/ handleRecordingStart
  \/ \E i \in 1..Len(startCalls) : MicGranted(i)
  \/ \E i \in 1..Len(startCalls) : MicDenied(i)
  \/ \E throws \in BOOLEAN : handleRecordingStop(throws)
  \/ \E r \in 1..Len(recorders) : StopEvent(r)
  \/ \E r \in 1..Len(recorders) : StreamEnded(r)
  \/ \E t \in 1..Len(transcriptions), text \in Transcripts : TranscribeOk(t, text)
  \/ \E t \in 1..Len(transcriptions) : TranscribeFail(t)

SpecVoice == InitVoice /\ [][NextVoice]_vars

InitOutage ==
  Loaded /\ limit = VoiceLimits(OutageConnects, 0, OutageSockets, OutageSends,
                                OutageFrames, OutageStarts, OutageStops)

\* VoiceChat as in NextVoice, with failing sockets and the retry timers.
NextOutage ==
  \/ Mount
  \/ \E s \in 1..Len(sockets) : VoiceOpen(s)
  \/ \E s \in 1..Len(sockets) : VoiceClose(s)
  \/ \E s \in 1..Len(sockets) : VoiceFail(s)
  \/ \E i \in 1..Len(timers) : VoiceTimer(i)
  \/ \E s \in 1..Len(sockets), f \in ChatFrames : ChunkArrives(s, f)
  \/ handleRecordingStart
  \/ \E i \in 1..Len(startCalls) : MicGranted(i)
  \/ \E i \in 1..Len(startCalls) : MicDenied(i)
  \/ \E throws \in BOOLEAN : handleRecordingStop(throws)
  \/ \E r \in 1..Len(recorders) : StopEvent(r)
  \/ \E r \in 1..Len(recorders) : StreamEnded(r)
  \/ \E t \in 1..Len(transcriptions), text \in Transcripts : TranscribeOk(t, text)
  \/ \E t \in 1..Len(transcriptions) : TranscribeFail(t)

SpecOutage == InitOutage /\ [][NextOutage]_vars

InitProcessing ==
  Loaded /\ limit = VoiceLimits(VoiceConnects, VoiceDisconnects, VoiceSockets,
                                ProcSends, ProcFrames, ProcStarts, ProcStops)

SpecProcessing == InitProcessing /\ [][NextVoice]_vars

\* ================================================================ claims

\* C1: after disconnect(), until the application calls connect() again, no
\* reconnection is scheduled and no new socket is opened; a retry timer that
\* was pending at disconnect() never results in a connect.
C1_DisconnectSuppressesReconnect ==
  [][ (manualClose /\ manualClose')
        => (Len(timers') <= Len(timers) /\ created' = created) ]_vars

\* C2: at most one socket is live (CONNECTING or OPEN) at any time, and
\* connect() called while a channel is open creates no socket and leaves
\* this.ws unchanged.
C2_AtMostOneLiveSocket ==
  [][ /\ Cardinality(LiveSockets') <= 1
      /\ (connectCalls' # connectCalls /\ isConnected)
            => (created' = created /\ ws' = ws) ]_vars

\* C3: reconnectAttempts never exceeds 5, and at most 5 retry connects are
\* started between two successful opens.
C3_AtMostFiveRetries ==
  reconnectAttempts <= 5 /\ retriesSinceOpen <= 5

\* C4: the delay scheduled before reconnection attempt k (k = 1..5) is
\* 1000 * 2^(k-1) ms: 1000, 2000, 4000, 8000, 16000, uncapped.
C4_BackoffDelays ==
  \A i \in 1..Len(timers) :
     /\ timers[i].attempt \in 1..5
     /\ timers[i].delay = << 1000, 2000, 4000, 8000, 16000 >>[timers[i].attempt]

C4_Witness ==
  \E i \in 1..Len(timers) : timers[i].attempt = 5 /\ timers[i].delay = 16000

\* C5: the attempt counter decreases only at a successful open, where it
\* becomes 0, and the first retry after the unexpected close of an open
\* channel is attempt 1.
C5_CounterMonotoneAndReset ==
  [][ /\ (reconnectAttempts' < reconnectAttempts) => OnOpenStep
      /\ OnOpenStep => (reconnectAttempts' = 0)
      /\ \A i \in 1..Len(timers') :
            timers'[i].afterOpen => (timers'[i].attempt = 1) ]_vars

\* C6: once the 5 attempts are used up, the failure is reported through the
\* error callback and, until the application calls connect() again, no
\* retry timer is scheduled, no socket is created and this.ws stays null.
C6_StopsAfterMaxAttempts ==
  [][ /\ \A s \in 1..Len(sockets) :
            ( /\ OnCloseStep(s)
              /\ reconnectAttempts >= maxReconnectAttempts
              /\ sockets[s].onError ) => MaxReported(errors')
      /\ (gaveUp /\ gaveUp')
            => ( /\ Len(timers') <= Len(timers)
                 /\ created' = created
                 /\ ws' = NULL ) ]_vars

\* C7: every promise returned by connect() settles: no socket closes while
\* the promise of its connect() is still pending.
C7_ConnectPromiseSettles ==
  outcomes \subseteq {"resolved", "rejected"}

\* C8: the error callback is invoked for a connection failure only after
\* the 5 reconnection attempts are exhausted.
C8_ErrorOnlyAfterExhaustion ==
  \A e \in errors : e.exhausted

\* C9: send() throws unless this.ws exists and is OPEN; a send that throws
\* transmits nothing and changes neither this.ws, the sockets, the timers
\* nor the attempt counter.
C9_SendFailsUnlessConnected ==
  [][ (sendCalls' # sendCalls)
        => IF isConnected
           THEN Len(sent') = Len(sent) + 1 /\ sendThrown' = sendThrown
           ELSE /\ sent' = sent
                /\ wsState \in sendThrown'
                /\ ws' = ws
                /\ sockets' = sockets
                /\ timers' = timers
                /\ reconnectAttempts' = reconnectAttempts ]_vars

C9_Witness ==
  /\ sendThrown = {"null", "CONNECTING"}
  /\ sent = << >>
  /\ ws # NULL
  /\ sockets[ws].readyState = "CONNECTING"

\* The chunks the message callback must have seen for the frames in seq:
\* one per well-formed frame, in arrival order.
RECURSIVE Decoded(_)
Decoded(seq) ==
  IF seq = << >> THEN << >>
  ELSE LET last == seq[Len(seq)]
           init == Decoded(SubSeq(seq, 1, Len(seq) - 1))
       IN  IF last.data \in { "{\"type\":\"text\",\"content\":\"a\"}",
                              "{\"type\":\"done\",\"content\":\"\"}" }
           THEN Append(init, JSONParse(last.data))
           ELSE init

\* C10: a frame that fails to parse is dropped: the message callback is not
\* invoked, the socket stays as it is, nothing is scheduled; the callback
\* sees every well-formed frame exactly once, in arrival order.
C10_MalformedFrameDropped ==
  [][ (Len(arrived') > Len(arrived))
        => /\ sockets' = sockets
           /\ timers' = timers
           /\ ws' = ws
           /\ reconnectAttempts' = reconnectAttempts
           /\ [k \in 1..Len(delivered') |-> delivered'[k].chunk] = Decoded(arrived')
           /\ Len(delivered') > Len(delivered)
                 => delivered'[Len(delivered')].cb
                      = sockets[arrived'[Len(arrived')].sock].cb ]_vars

C10_Witness ==
  /\ Len(arrived) >= 2
  /\ JSONParse(arrived[1].data) = ParseError
  /\ arrived[2].sock = arrived[1].sock
  /\ sockets[arrived[1].sock].readyState = "OPEN"
  /\ Len(delivered) = Len(arrived) - 1
  /\ delivered[1].chunk = JSONParse(arrived[2].data)

\* ------------------------------------------------------ chunks of an exchange
\* The step hands a chunk to handleStreamingChunk.
ChunkStep == Len(delivered') = Len(delivered) + 1

\* The chunk handed over in a ChunkStep.
StepChunk == delivered'[Len(delivered')].chunk

\* The chunks delivered after the last done chunk of seq: the chunks of the
\* exchange that is still streaming.
RECURSIVE Exchange(_)
Exchange(seq) ==
  IF seq = << >> \/ seq[Len(seq)].chunk.type = "done"
  THEN << >>
  ELSE Append(Exchange(SubSeq(seq, 1, Len(seq) - 1)), seq[Len(seq)].chunk)

\* The contents of the text chunks of cs, concatenated in order.
RECURSIVE Concat(_)
Concat(cs) ==
  IF cs = << >> THEN ""
  ELSE LET c == cs[Len(cs)]
           front == Concat(SubSeq(cs, 1, Len(cs) - 1))
       IN  IF c.type = "text" THEN front \o c.content ELSE front

\* The content of the last council_update chunk of cs, Null if there is none.
RECURSIVE LastCouncil(_)
LastCouncil(cs) ==
  IF cs = << >> THEN Null
  ELSE LET c == cs[Len(cs)]
       IN  IF c.type = "council_update" THEN c.content
           ELSE LastCouncil(SubSeq(cs, 1, Len(cs) - 1))

\* cs is one or more text chunks and nothing else.
OnlyText(cs) == Len(cs) >= 1 /\ \A k \in 1..Len(cs) : cs[k].type = "text"

\* The step appends exactly one assistant message.
AppendsAssistant ==
  /\ Len(messages') = Len(messages) + 1
  /\ SubSeq(messages', 1, Len(messages)) = messages
  /\ messages'[Len(messages')].role = "assistant"

\* C11: when done arrives after text chunks c1..cn (n >= 1), an assistant
\* message is appended whose content is c1 \o ... \o cn in arrival order.
C11_DoneAppendsConcatenation ==
  [][ (ChunkStep /\ StepChunk.type = "done" /\ OnlyText(Exchange(delivered)))
        => /\ AppendsAssistant
           /\ messages'[Len(messages')].content = Concat(Exchange(delivered)) ]_vars

\* C12: after a done chunk is processed the accumulator is empty, the
\* council snapshot is null and the processing flag is false.
C12_DoneClearsExchangeState ==
  [][ (ChunkStep /\ StepChunk.type = "done")
        => /\ currentResponse' = ""
           /\ councilUpdate' = Null
           /\ isProcessing' = FALSE ]_vars

\* C13: the assistant message appended by a done chunk carries the last
\* council snapshot received in that exchange as metadata.council, and no
\* council metadata when none was received.
C13_DoneAttachesCouncil ==
  [][ (ChunkStep /\ StepChunk.type = "done" /\ Concat(Exchange(delivered)) # "")
        => /\ AppendsAssistant
           /\ messages'[Len(messages')].council = LastCouncil(Exchange(delivered)) ]_vars

\* C14: after a council_update chunk is processed the council snapshot is
\* exactly the content of that chunk, whatever the snapshot was before.
C14_CouncilUpdateReplaces ==
  [][ (ChunkStep /\ StepChunk.type = "council_update")
        => councilUpdate' = StepChunk.content ]_vars

\* A snapshot with two members and a dissent value was replaced by one with
\* one member and no dissent field.
C14_Witness ==
  /\ Len(delivered) >= 2
  /\ delivered[Len(delivered) - 1].chunk.type = "council_update"
  /\ delivered[Len(delivered)].chunk.type = "council_update"
  /\ "dissent" \in DOMAIN delivered[Len(delivered) - 1].chunk.content
  /\ councilUpdate # Null
  /\ DOMAIN councilUpdate = {"stage", "members"}
  /\ Len(councilUpdate.members) = 1

\* C15: an error chunk aborts the exchange: the processing flag is cleared,
\* no assistant message is appended and the accumulator is cleared.
C15_ErrorAbortsExchange ==
  [][ (ChunkStep /\ StepChunk.type = "error")
        => /\ isProcessing' = FALSE
           /\ messages' = messages
           /\ currentResponse' = "" ]_vars

\* -------------------------------------------------------- recording exchanges
\* No exchange is in flight in VoiceChat: no microphone acquisition, no
\* capture, no stop, transcription or streaming under way.
Idle ==
  /\ ~isRecording
  /\ ~isProcessing
  /\ \A i \in 1..Len(startCalls) : startCalls[i].state # "pending"
  /\ \A p \in 1..Len(stopCalls) : stopCalls[p].state # "pending"
  /\ \A t \in 1..Len(transcriptions) : transcriptions[t].state # "pending"
  /\ \A r \in 1..Len(recorders) : recorders[r].state # "recording"

\* C16: a new exchange is started only when the session is Idle; a start
\* while an exchange is in flight is rejected and changes nothing.
C16_StartOnlyWhenIdle ==
  [][ (Len(startCalls') > Len(startCalls)) => Idle ]_vars

\* C17: when the transcription fails, isRecording and isProcessing are both
\* false afterwards, no message is appended and nothing is sent.
C17_TranscriptionFailureAborts ==
  [][ (\E t \in 1..Len(transcriptions) :
          transcriptions[t].state = "pending" /\ transcriptions'[t].state = "failed")
        => /\ ~isRecording'
           /\ ~isProcessing'
           /\ messages' = messages
           /\ sent' = sent ]_vars

\* C18: when the microphone acquisition of startRecording fails, no message
\* is appended, nothing is sent, no recorder is active and the session is
\* Idle afterwards.
C18_MicDeniedLeavesIdle ==
  [][ (\E i \in 1..Len(startCalls) :
          startCalls[i].state = "pending" /\ startCalls'[i].state = "rejected")
        => /\ messages' = messages
           /\ sent' = sent
           /\ \A r \in 1..Len(recorders') : recorders'[r].state # "recording"
           /\ ~isRecording'
           /\ ~isProcessing' ]_vars

\* C19: the promise of a stopRecording() call made while no capture is
\* active is rejected (and so never stays pending).
C19_StopWithoutCaptureRejects ==
  \A p \in 1..Len(stopCalls) : stopCalls[p].idle => stopCalls[p].state = "rejected"

\* C20: when stopRecording fails in VoiceChat, isRecording and isProcessing
\* are both false afterwards and no message is appended or sent.
C20_StopFailureLeavesIdle ==
  [][ (/\ Len(stopCalls') > Len(stopCalls)
       /\ stopCalls'[Len(stopCalls')].by = "VoiceChat"
       /\ stopCalls'[Len(stopCalls')].state = "rejected")
        => /\ ~isRecording'
           /\ ~isProcessing'
           /\ messages' = messages
           /\ sent' = sent ]_vars

\* ------------------------------------------------------ terminal conditions
\* The step is a terminal condition of a voice exchange: the mounted
\* VoiceChat handles a done or error chunk, a transcription fails, or
\* wsManager.send throws.
TerminalStep ==
  \/ /\ ChunkStep
     /\ StepChunk.type \in {"done", "error"}
     /\ inputMode = "voice"
  \/ \E t \in 1..Len(transcriptions) :
        transcriptions[t].state = "pending" /\ transcriptions'[t].state = "failed"
  \/ /\ \E t \in 1..Len(transcriptions) :
          transcriptions[t].state = "pending" /\ transcriptions'[t].state = "ok"
     /\ sendCalls' > sendCalls
     /\ sent' = sent

\* C21: every terminal condition of an exchange in VoiceChat (done chunk,
\* error chunk, transcription failure, send failure) leaves isProcessing
\* false, also when malformed frames arrive in between.
C21_ProcessingClearedOnTerminal ==
  [][ TerminalStep => isProcessing' = FALSE ]_vars

\* The recording was transcribed and sent, a malformed frame and then done
\* arrived, and the indicator is clear.
C21_Witness ==
  /\ Len(transcriptions) = 1
  /\ transcriptions[1].state = "ok"
  /\ Len(sent) = 1
  /\ Len(arrived) = 2
  /\ JSONParse(arrived[1].data) = ParseError
  /\ JSONParse(arrived[2].data) # ParseError
  /\ JSONParse(arrived[2].data).type = "done"
  /\ ~isProcessing

\* ------------------------------------------------------------ text exchanges
\* TextInput has sent its message on socket k and waits for the reply.
TextStreaming(k) ==
  /\ inputMode = "text"
  /\ textIsProcessing
  /\ Len(sent) >= 1
  /\ sent[Len(sent)].sock = k
  /\ sent[Len(sent)].data = JSONStringify([request_type |-> "text", content |-> "Hello"])

\* C22: for an exchange sent from TextInput, text chunks followed by done
\* append an assistant message with the concatenated content to the
\* messages of TextInput and clear its isProcessing.
C22_TextExchangeCompletes ==
  [][ (/\ ChunkStep
       /\ StepChunk.type = "done"
       /\ TextStreaming(arrived'[Len(arrived')].sock)
       /\ OnlyText(Exchange(delivered)))
        => /\ textMessages' = Append(textMessages,
                                Message("assistant", Concat(Exchange(delivered)), Null))
           /\ ~textIsProcessing' ]_vars

\* wsManager.send threw in this step of TextInput.
TextSendThrows ==
  /\ inputMode = "text"
  /\ sendCalls' > sendCalls
  /\ sent' = sent

\* C24: a handleSend of TextInput made while the channel is not connected
\* leaves TextInput idle: isProcessing is not left true.
C24_TextSendRejectedStaysIdle ==
  [][ TextSendThrows => ~textIsProcessing' ]_vars

\* --------------------------------------------------------- connection status
\* The step opens the manager's current socket while its VoiceChat is mounted.
ChannelOpens ==
  /\ OnOpenStep
  /\ ws' # NULL
  /\ sockets'[ws'].readyState = "OPEN"
  /\ Mounted(sockets'[ws'].cb)

\* The step loses an open channel of the mounted VoiceChat.
ChannelLost ==
  /\ inputMode = "voice"
  /\ handler # Null
  /\ \E s \in 1..Len(sockets) : sockets[s].readyState = "OPEN" /\ OnCloseStep(s)

\* C23: the indicator isConnected of VoiceChat becomes false when the
\* channel is lost and true at every successful open or reopen.
C23_IndicatorFollowsConnection ==
  [][ /\ ChannelOpens => isConnectedState'
      /\ ChannelLost => ~isConnectedState' ]_vars

\* C25: when the connection failure is surfaced (attempts used up, error
\* callback invoked) while an exchange of VoiceChat is streaming,
\* isProcessing becomes false.
C25_SurfacedFailureReturnsIdle ==
  [][ (/\ gaveUp' /\ ~gaveUp
       /\ inputMode = "voice"
       /\ isProcessing
       /\ Len(sent) >= 1)
        => ~isProcessing' ]_vars

\* C26: the close event of a socket that is not the manager's current
\* socket leaves this.ws alone and schedules nothing, and whenever the most
\* recently created socket is open it is this.ws.
C26_StaleCloseIgnored ==
  [][ /\ \A s \in 1..Len(sockets) :
           (OnCloseStep(s) /\ ws # s)
              => ws' = ws /\ timers' = timers /\ reconnectAttempts' = reconnectAttempts
      /\ (Len(sockets') >= 1 /\ sockets'[Len(sockets')].readyState = "OPEN")
            => ws' = Len(sockets') ]_vars

====
